---- MODULE Spec2Model ----
(***************************************************************************)
(* Model of the encryption-key generation script and of its Azure CLI      *)
(* helpers (scripts/generate_encryptionkeys_azure.py and                   *)
(* scripts/azure_helpers.py).                                              *)
(*                                                                         *)
(* A Python string is a sequence of tokens (a token is an indivisible      *)
(* chunk of text: a literal, a separator, a name); a Python value of       *)
(* dynamic type is a record tagged by its type.  The call stack is a       *)
(* sequence of frames; a value or an exception travelling from a callee to *)
(* its caller is held in ret.                                              *)
(***************************************************************************)
EXTENDS Integers, Sequences, FiniteSets, TLC

VARIABLES
    entry,            \* the entry point exercised: the script, or one helper called directly
    stack,            \* call stack, innermost frame last
    ret,              \* value or exception delivered to the frame on top of the stack
    args,             \* the parsed command line of the script (argparse namespace)
    now,              \* datetime.now(), in ticks since day 0
    gek,              \* locals of generate_encryption_keys
    log,              \* lines emitted through the logger, oldest first
    logging_disabled, \* logging.disable(logging.ERROR) is in force
    invoked,          \* argument lists handed to az_cli.invoke in this run, oldest first
    az_invocations,   \* invocations of the external tool by the current (or last) call of az
    az_sleeps,        \* retry waits taken by the current (or last) call of az
    az_attempts,      \* what each attempt of the current (or last) call of az returned or raised
    az_calls,         \* argument lists of the calls of az made in this run, oldest first
    slept,            \* seconds spent in retry waits in this run
    last_outcome,     \* how the external tool ended its last invocation
    vault,            \* secret versions held by the key vault, oldest first
    exit_status,      \* exit status of the process: -1 while it runs
    traceback         \* exception type that ended the process uncaught, "" if none

vars == <<entry, stack, ret, args, now, gek, log, logging_disabled, invoked,
          az_invocations, az_sleeps, az_attempts, az_calls, slept, last_outcome, vault,
          exit_status, traceback>>

----------------------------------------------------------------------------
(* Bounds of the model *)

\* instants distinguished within one calendar day (tick 0 is midnight)
TicksPerDay == 2
\* calendar day on which the script runs
Today == 1

(* Program constants *)

\* tenacity.stop_after_attempt(5)
MaxAttempts == 5
\* tenacity.wait_fixed(5)
WaitSeconds == 5
\* timedelta(days=90)
DefaultExpirationDays == 90
\* az cli exit code 3 == ResourceNotFound (404)
NotFoundExitCode == 3

----------------------------------------------------------------------------
(* Python values *)

None == [t |-> "None", v |-> <<>>]
PyStr(s) == [t |-> "str", v |-> s]
PyList(l) == [t |-> "list", v |-> l]
PyDict(d) == [t |-> "dict", v |-> d]
PyBool(b) == [t |-> "bool", v |-> b]

\* bool(x): None, False, the empty string and the empty containers are falsy
Truthy(x) ==
    CASE x.t = "None" -> FALSE
      [] x.t = "bool" -> x.v
      [] OTHER -> Len(x.v) > 0

\* a string literal of one token
S(tok) == <<tok>>

RECURSIVE Join(_, _)
\* sep.join(parts)
Join(parts, sep) ==
    IF Len(parts) = 0 THEN <<>>
    ELSE IF Len(parts) = 1 THEN parts[1]
    ELSE parts[1] \o sep \o Join(Tail(parts), sep)

RECURSIVE Split(_, _)
\* s.split(sep) for a one-token separator: always at least one part
Split(s, sep) ==
    IF \A i \in 1..Len(s) : s[i] # sep THEN <<s>>
    ELSE LET i == CHOOSE j \in 1..Len(s) : s[j] = sep /\ \A k \in 1..(j - 1) : s[k] # sep
         IN <<SubSeq(s, 1, i - 1)>> \o Split(SubSeq(s, i + 1, Len(s)), sep)

RECURSIVE Replace(_, _, _)
\* s.replace(old, new): every non-overlapping occurrence, leftmost first
Replace(s, old, new) ==
    IF Len(old) = 0 \/ Len(s) < Len(old) THEN s
    ELSE IF SubSeq(s, 1, Len(old)) = old
         THEN new \o Replace(SubSeq(s, Len(old) + 1, Len(s)), old, new)
         ELSE <<s[1]>> \o Replace(Tail(s), old, new)

LowerTok(c) ==
    CASE c = "A" -> "a"
      [] c = "B" -> "b"
      [] c = "C" -> "c"
      [] OTHER -> c

\* Lower that leaves the case as it is
Lower_identity(s) == s

\* s.lower()
Lower(s) == [i \in 1..Len(s) |-> LowerTok(s[i])]

\* d[key] of a dict held as a sequence of <<key, value>> items; the key must be present
DictGet(d, key) == d[CHOOSE i \in 1..Len(d) : d[i][1] = key][2]
DictHas(d, key) == \E i \in 1..Len(d) : d[i][1] = key

\* d[key] = value: an existing key keeps its place, a new key goes last
DictSet(d, key, value) ==
    IF DictHas(d, key)
    THEN [i \in 1..Len(d) |-> IF d[i][1] = key THEN <<key, value>> ELSE d[i]]
    ELSE Append(d, <<key, value>>)

Last(s) == s[Len(s)]
Top == stack[Len(stack)]
Pop(stk) == SubSeq(stk, 1, Len(stk) - 1)

----------------------------------------------------------------------------
(* Exceptions *)

NoRet == [k |-> "none"]
Val(v) == [k |-> "val", v |-> v]
\* an exception of the given type; code is the exit code quoted in its message
\* (-1 when the message quotes none)
Exc(type, code) == [k |-> "exc", type |-> type, code |-> code]

----------------------------------------------------------------------------
(* Logger *)

\* logger.info / logger.error: dropped while logging.disable(logging.ERROR) is in force
Emit(lg, disabled, level, msg, shown) ==
    IF disabled THEN lg ELSE Append(lg, [level |-> level, msg |-> msg, shown |-> shown])

----------------------------------------------------------------------------
(* The external tool: az_cli.invoke(args_with_output) *)

\* text the tool may leave in az_cli.out_file
Outputs == {"", "null", "[]", "[{\"id\": \"Ab\"}]", "[{\"id\": \"cd\"}]",
            "{\"name\": \"rg\"}", "[\"https://kv/secrets/key/v1\"]",
            "[\"https://kv/secrets/key/v2\"]", "ERROR: not json"}

JsonTexts == Outputs \ {"", "ERROR: not json"}

\* json.loads(output) for the texts of JsonTexts; every other text raises JSONDecodeError
json_loads(output) ==
    CASE output = "null" -> None
      [] output = "[]" -> PyList(<<>>)
      [] output = "[{\"id\": \"Ab\"}]" -> PyList(<<PyDict(<<<<S("id"), PyStr(<<"A", "b">>)>>>>)>>)
      [] output = "[{\"id\": \"cd\"}]" -> PyList(<<PyDict(<<<<S("id"), PyStr(<<"c", "d">>)>>>>)>>)
      [] output = "{\"name\": \"rg\"}" -> PyDict(<<<<S("name"), PyStr(S("rg"))>>>>)
      [] output = "[\"https://kv/secrets/key/v1\"]" ->
            PyList(<<PyStr(<<"https:", "/", "/", "kv", "/", "secrets", "/", "key", "/", "v1">>)>>)
      [] output = "[\"https://kv/secrets/key/v2\"]" ->
            PyList(<<PyStr(<<"https:", "/", "/", "kv", "/", "secrets", "/", "key", "/", "v2">>)>>)

\* az_cli.result after the invocation: absent ("None"), present without an error
\* ("no_error"), present with an error whose text holds the management-endpoint
\* max-retries message ("max_retries"), present with any other error ("other_error")
ResultKinds == {"None", "no_error", "max_retries", "other_error"}

\* exit codes the tool ends with
ExitCodes == 0..NotFoundExitCode

\* A process exit raised out of invoke carries a failure code: the tool exits with
\* code 0 only for help and version requests, which no command of the helpers makes.
\* Nothing is read from out_file on that path.
ToolOutcomes ==
    [raised : {TRUE}, code : ExitCodes \ {0}, result : ResultKinds, output : {""}]
    \cup [raised : {FALSE}, code : ExitCodes, result : ResultKinds, output : Outputs]

NoOutcome == [raised |-> FALSE, code |-> -1, result |-> "None", output |-> ""]

\* the tool writes a secret version when a 'keyvault secret set' command succeeds
IsSecretSet(cmd) ==
    Len(cmd) >= 3 /\ cmd[1] = S("keyvault") /\ cmd[2] = S("secret") /\ cmd[3] = S("set")

\* the argument that follows the first occurrence of flag
ArgAfter(cmd, flag) ==
    cmd[(CHOOSE i \in 1..(Len(cmd) - 1) : cmd[i] = S(flag) /\ \A j \in 1..(i - 1) : cmd[j] # S(flag)) + 1]

ToolWrites(cmd, o) == IsSecretSet(cmd) /\ ~o.raised /\ o.code = 0

----------------------------------------------------------------------------
(* az: one attempt (the body of the function) *)

\* args + ['--output', 'json']
args_with_output(a) == a \o <<S("--output"), S("json")>>

RECURSIVE RedactAll(_, _)
\* for redact in redact_values: args_to_log = args_to_log.replace(redact, '*****')
RedactAll(text, values) ==
    IF Len(values) = 0 THEN text
    ELSE RedactAll(Replace(text, values[1], S("*****")), Tail(values))

\* the command line as logged
args_to_log(a, redact_values) ==
    LET joined == Join(args_with_output(a), S(" "))
    IN IF Truthy(redact_values) THEN RedactAll(joined, redact_values.v) ELSE joined

\* the local exit_code: set only when invoke returns
az_exit_code(o) == IF o.raised THEN 0 ELSE o.code

\* "HTTPSConnectionPool(host='management.azure.com', port=443): Max retries exceeded
\* with url" in str(az_cli.result.error), given that az_cli.result is truthy
MaxRetriesSignature(o) == o.result # "None" /\ o.result = "max_retries"

\* az_cli.result and az_cli.result.error
StructuredError(o) == o.result \in {"max_retries", "other_error"}

\* az_attempt with the structured error looked at before the output
az_attempt_error_first(o) ==
    IF o.raised
    THEN IF o.code = NotFoundExitCode
         THEN Exc("AzCliResourceNotFoundException", az_exit_code(o))
         ELSE IF o.code = 1 /\ MaxRetriesSignature(o)
         THEN Exc("AzCliServiceUnavailableException", az_exit_code(o))
         ELSE Exc("AzCliExecutionException", az_exit_code(o))
    ELSE IF StructuredError(o)
         THEN Exc("AzCliExecutionException", az_exit_code(o))
    ELSE IF o.output # "" /\ az_exit_code(o) = 0
         THEN IF o.output \in JsonTexts
              THEN Val(json_loads(o.output))
              ELSE Exc("AzCliExecutionException", az_exit_code(o))
    ELSE Val(None)

\* what one attempt returns or raises
az_attempt(o) ==
    IF o.raised
    THEN IF o.code = NotFoundExitCode
         THEN Exc("AzCliResourceNotFoundException", az_exit_code(o))
         ELSE IF o.code = 1 /\ MaxRetriesSignature(o)
         THEN Exc("AzCliServiceUnavailableException", az_exit_code(o))
         ELSE Exc("AzCliExecutionException", az_exit_code(o))
    ELSE IF o.output # "" /\ az_exit_code(o) = 0
         THEN IF o.output \in JsonTexts
              THEN Val(json_loads(o.output))
              ELSE Exc("AzCliExecutionException", az_exit_code(o))
    ELSE IF StructuredError(o)
         THEN Exc("AzCliExecutionException", az_exit_code(o))
    ELSE Val(None)

\* the logger.error call an attempt makes, "" if none
az_error_line(o) ==
    IF o.raised
    THEN IF az_attempt(o).type = "AzCliExecutionException"
         THEN "az - Command failed with exit code: %s" ELSE ""
    ELSE IF o.output # "" /\ az_exit_code(o) = 0
         THEN IF o.output \in JsonTexts THEN "" ELSE "az - Failed to decode output: %s"
    ELSE IF StructuredError(o) THEN "az - Command failed with error: %s"
    ELSE ""

\* the except block runs before the finally block switches logging on again
az_error_line_suppressed(o) == o.raised

(* az: the tenacity.retry decorator *)

\* should_retry with every exception type retried
should_retry_any_exception(res) == res.k = "exc"

\* retry_if_exception_type(AzCliServiceUnavailableException)
should_retry(res) == res.k = "exc" /\ res.type = "AzCliServiceUnavailableException"

\* should_stop that lets one attempt too many through
should_stop_one_late(attempt_number) == attempt_number > MaxAttempts

\* stop_after_attempt(5)
should_stop(attempt_number) == attempt_number >= MaxAttempts

\* what the decorated function does after an attempt: hand the attempt's result or
\* exception to the caller, wait for another attempt, or give up with RetryError
\* (reraise is left at its default, False)
retry_decision(res, attempt_number) ==
    IF ~should_retry(res) THEN res
    ELSE IF should_stop(attempt_number) THEN Exc("RetryError", -1)
    ELSE [k |-> "retry"]

\* the record kept of one attempt: the exception type and the exit code its message
\* quotes, or "value" for an attempt that returned
Attempt(res) ==
    IF res.k = "exc" THEN [type |-> res.type, code |-> res.code]
    ELSE [type |-> "value", code |-> -1]

\* a call of az(args, redact_values) from the frame on top of stk
CallAz(stk, a, redact_values) ==
    /\ stack' = Append(stk, [fn |-> "az", at |-> "call", args |-> a,
                             redact_values |-> redact_values, attempt_number |-> 1])
    /\ az_invocations' = 0
    /\ az_sleeps' = 0
    /\ az_attempts' = <<>>
    /\ az_calls' = Append(az_calls, a)
    /\ last_outcome' = NoOutcome

\* AzInvoke with the output pair appended to the caller's list itself
AzInvoke_extends_args ==
    /\ Len(stack) > 0
    /\ Top.fn = "az" /\ Top.at = "call"
    /\ log' = Emit(log, logging_disabled, "INFO", "az - Executing az %s",
                   args_to_log(Top.args, Top.redact_values))
    /\ logging_disabled' = TRUE
    /\ invoked' = Append(invoked, args_with_output(Top.args))
    /\ az_invocations' = az_invocations + 1
    /\ stack' = [stack EXCEPT ![Len(stack)].at = "invoke",
                              ![Len(stack)].args = args_with_output(@)]
    /\ UNCHANGED <<entry, ret, args, now, gek, az_sleeps, az_attempts, az_calls, slept, last_outcome,
                   vault, exit_status, traceback>>

\* lines 99-116: log the command line, switch logging off, enter the tool
AzInvoke ==
    /\ Len(stack) > 0
    /\ Top.fn = "az" /\ Top.at = "call"
    /\ log' = Emit(log, logging_disabled, "INFO", "az - Executing az %s",
                   args_to_log(Top.args, Top.redact_values))
    /\ logging_disabled' = TRUE
    /\ invoked' = Append(invoked, args_with_output(Top.args))
    /\ az_invocations' = az_invocations + 1
    /\ stack' = [stack EXCEPT ![Len(stack)].at = "invoke"]
    /\ UNCHANGED <<entry, ret, args, now, gek, az_sleeps, az_attempts, az_calls, slept, last_outcome,
                   vault, exit_status, traceback>>

\* AzToolEnds without the finally block when the attempt raises
AzToolEnds_no_finally_on_raise ==
    /\ Len(stack) > 0
    /\ Top.fn = "az" /\ Top.at = "invoke"
    /\ \E o \in ToolOutcomes :
        LET res == az_attempt(o)
            line == az_error_line(o)
            next == retry_decision(res, Top.attempt_number)
            lg1 == IF line = "" THEN log
                   ELSE Emit(log, az_error_line_suppressed(o), "ERROR", line, <<>>)
        IN /\ last_outcome' = o
           /\ az_attempts' = Append(az_attempts, Attempt(res))
           /\ vault' = IF ToolWrites(Last(invoked), o)
                       THEN Append(vault, [name |-> ArgAfter(Last(invoked), "--name"),
                                           value |-> ArgAfter(Last(invoked), "--value")])
                       ELSE vault
           /\ log' = lg1
           /\ logging_disabled' = (res.k = "exc")
           /\ IF next.k = "retry"
              THEN /\ stack' = [stack EXCEPT ![Len(stack)].at = "wait"]
                   /\ ret' = ret
              ELSE /\ stack' = Pop(stack)
                   /\ ret' = next
    /\ UNCHANGED <<entry, args, now, gek, invoked, az_invocations, az_sleeps, az_calls,
                   slept, exit_status, traceback>>

\* lines 116-146 and the decorator: the tool ends, the attempt is classified, and the
\* call returns, raises or goes on to wait
AzToolEnds ==
    /\ Len(stack) > 0
    /\ Top.fn = "az" /\ Top.at = "invoke"
    /\ \E o \in ToolOutcomes :
        LET res == az_attempt(o)
            line == az_error_line(o)
            next == retry_decision(res, Top.attempt_number)
            lg1 == IF line = "" THEN log
                   ELSE Emit(log, az_error_line_suppressed(o), "ERROR", line, <<>>)
        IN /\ last_outcome' = o
           /\ az_attempts' = Append(az_attempts, Attempt(res))
           /\ vault' = IF ToolWrites(Last(invoked), o)
                       THEN Append(vault, [name |-> ArgAfter(Last(invoked), "--name"),
                                           value |-> ArgAfter(Last(invoked), "--value")])
                       ELSE vault
           /\ log' = lg1
           /\ logging_disabled' = FALSE
           /\ IF next.k = "retry"
              THEN /\ stack' = [stack EXCEPT ![Len(stack)].at = "wait"]
                   /\ ret' = ret
              ELSE /\ stack' = Pop(stack)
                   /\ ret' = next
    /\ UNCHANGED <<entry, args, now, gek, invoked, az_invocations, az_sleeps, az_calls,
                   slept, exit_status, traceback>>

\* wait_fixed(5): sleep, then the next attempt
AzWait ==
    /\ Len(stack) > 0
    /\ Top.fn = "az" /\ Top.at = "wait"
    /\ slept' = slept + WaitSeconds
    /\ az_sleeps' = az_sleeps + 1
    /\ stack' = [stack EXCEPT ![Len(stack)].at = "call",
                              ![Len(stack)].attempt_number = @ + 1]
    /\ UNCHANGED <<entry, ret, args, now, gek, log, logging_disabled, invoked,
                   az_invocations, az_attempts, az_calls, last_outcome, vault, exit_status, traceback>>

----------------------------------------------------------------------------
(* Process and call plumbing *)

\* the process ends: sys.exit(status), the end of the script (status 0), or an
\* uncaught exception (status 1 and a traceback)
Terminate(status, tb) ==
    /\ stack' = <<>>
    /\ ret' = NoRet
    /\ exit_status' = status
    /\ traceback' = tb

\* log_error_and_exit that exits with status 0
log_error_and_exit_status_zero(lg, message, shown) ==
    /\ log' = Emit(lg, logging_disabled, "ERROR", message, shown)
    /\ Terminate(0, "")

\* log_error_and_exit(message): logger.error, then sys.exit(1)
log_error_and_exit(lg, message, shown) ==
    /\ log' = Emit(lg, logging_disabled, "ERROR", message, shown)
    /\ Terminate(1, "")

\* lines 120-121: __main__ catches the exception and calls log_error_and_exit with two
\* positional arguments; the function takes one, so the call raises TypeError inside
\* the handler before anything is logged, and the process ends with a traceback
MainExcept(lg) ==
    /\ log' = lg
    /\ Terminate(1, "TypeError")

\* line 104
SUCCESS_MESSAGE ==
    "Encryption key '{key_name}' and Encryption key version name '{key_version_name}' generated successfully."

\* the frames generate_encryption_keys pushes for its calls (lines 88, 91, 95, 99, 102)
SelectSubscriptionFrame(subscription_id) ==
    [fn |-> "select_subscription", at |-> 22, subscription_id |-> subscription_id]
GroupExistsFrame(resource_group) ==
    [fn |-> "group_exists", at |-> 38, resource_group |-> resource_group]
VaultExistsFrame(resource_group, vault_name) ==
    [fn |-> "vault_exists", at |-> 48, resource_group |-> resource_group,
     vault_name |-> vault_name]
SetSecretFrame(key_vault, secret_name, secret_value, content_type, expiration_date, tags) ==
    [fn |-> "set_secret_and_get_secret_version", at |-> 65, key_vault |-> key_vault,
     secret_name |-> secret_name, secret_value |-> secret_value,
     content_type |-> content_type, expiration_date |-> expiration_date, tags |-> tags]

\* generate_encryption_keys goes on to line `at`, where it calls `frame`
GekCall(stk, at, frame) ==
    /\ stack' = Append([stk EXCEPT ![Len(stk)].at = at], frame)
    /\ ret' = NoRet
    /\ UNCHANGED <<exit_status, traceback>>

\* lines 88-104: generate_encryption_keys resumes with the result res of the call it
\* made at line stk[Len(stk)].at; an exception leaves it and reaches __main__
GekResume(stk, res, lg) ==
    LET at == stk[Len(stk)].at
    IN IF res.k = "exc" THEN MainExcept(lg) /\ gek' = gek
       ELSE CASE at = 88 ->
                   /\ GekCall(stk, 91, GroupExistsFrame(args.resource_group))
                   /\ log' = lg /\ gek' = gek
              [] at = 91 ->
                   IF ~Truthy(res.v)
                   THEN /\ log_error_and_exit(lg, "Resource group '{}' does not exist",
                                              args.resource_group)
                        /\ gek' = gek
                   ELSE /\ GekCall(stk, 95, VaultExistsFrame(args.resource_group, args.vault_name))
                        /\ log' = lg /\ gek' = gek
              [] at = 95 ->
                   IF ~Truthy(res.v)
                   THEN /\ log_error_and_exit(lg, "Key vault '{}' does not exist",
                                              args.vault_name)
                        /\ gek' = gek
                   ELSE /\ GekCall(stk, 99, SetSecretFrame(args.vault_name, gek.key_name,
                                        gek.key, S("application/octet-stream"),
                                        gek.expiration, gek.tags))
                        /\ log' = lg /\ gek' = gek
              [] at = 99 ->
                   /\ GekCall(stk, 102, SetSecretFrame(args.vault_name, gek.key_version_name,
                                        res.v.v, S("application/octet-stream"),
                                        gek.expiration, gek.tags))
                   /\ log' = lg
                   /\ gek' = [gek EXCEPT !.key_id = res.v]
              [] at = 102 ->
                   /\ log' = Emit(lg, logging_disabled, "INFO", SUCCESS_MESSAGE,
                                  gek.key_name \o gek.key_version_name)
                   /\ gek' = [gek EXCEPT !.key_version_id = res.v]
                   /\ Terminate(0, "")

\* a helper hands res to its caller, the frame on top of stk; lg is the log so far
Deliver(stk, res, lg) ==
    IF stk[Len(stk)].fn = "generate_encryption_keys"
    THEN GekResume(stk, res, lg)
    ELSE /\ stack' = stk
         /\ ret' = res
         /\ log' = lg
         /\ UNCHANGED <<gek, exit_status, traceback>>

\* what a helper leaves alone when it calls az
HelperCallsAzUnchanged ==
    UNCHANGED <<entry, args, now, gek, log, logging_disabled, invoked, slept, vault,
                exit_status, traceback>>

\* what a helper leaves alone when it returns or raises
HelperReturnsUnchanged ==
    UNCHANGED <<entry, args, now, logging_disabled, invoked, az_invocations, az_sleeps,
                az_attempts, az_calls, slept, last_outcome, vault>>

AtFrame(fn, at) == Len(stack) > 0 /\ Top.fn = fn /\ Top.at = at

----------------------------------------------------------------------------
(* azure_helpers.select_subscription *)

\* next((x for x in value), None): the first item, None for an empty iterable,
\* TypeError for None; iterating a dict yields its keys
FirstItem(value) ==
    CASE value.t = "None" -> Exc("TypeError", -1)
      [] value.t = "list" -> IF Len(value.v) = 0 THEN Val(None) ELSE Val(value.v[1])
      [] value.t = "dict" -> IF Len(value.v) = 0 THEN Val(None) ELSE Val(PyStr(value.v[1][1]))
      [] value.t = "str" -> IF Len(value.v) = 0 THEN Val(None) ELSE Val(PyStr(<<value.v[1]>>))

\* subscription['id']
SubscriptionId(subscription) ==
    CASE subscription.t = "dict" ->
            IF DictHas(subscription.v, S("id")) THEN Val(DictGet(subscription.v, S("id")))
            ELSE Exc("KeyError", -1)
      [] OTHER -> Exc("TypeError", -1)

\* lines 22-23: list the default account
SelectSubscriptionList ==
    /\ AtFrame("select_subscription", 22)
    /\ CallAz([stack EXCEPT ![Len(stack)].at = 23],
              <<S("account"), S("list"), S("--query"), S("[?isDefault]")>>, None)
    /\ ret' = NoRet
    /\ HelperCallsAzUnchanged

\* lines 23-31: no default account is an access failure; another account than the
\* requested one (ignoring case) is switched
SelectSubscriptionCheck ==
    /\ AtFrame("select_subscription", 23)
    /\ ret.k # "none"
    /\ LET first == IF ret.k = "exc" THEN ret ELSE FirstItem(ret.v)
           id == IF first.k = "exc" \/ ~Truthy(first.v) THEN first ELSE SubscriptionId(first.v)
       IN IF first.k = "exc"
          THEN Deliver(Pop(stack), first, log) /\ HelperReturnsUnchanged
          ELSE IF ~Truthy(first.v)
          THEN /\ Deliver(Pop(stack), Exc("AzCliAccessException", -1), log)
               /\ HelperReturnsUnchanged
          ELSE IF id.k = "exc"
          THEN Deliver(Pop(stack), id, log) /\ HelperReturnsUnchanged
          ELSE IF id.v.t # "str"
          THEN Deliver(Pop(stack), Exc("AttributeError", -1), log) /\ HelperReturnsUnchanged
          ELSE IF Lower(id.v.v) # Lower(Top.subscription_id)
          THEN /\ CallAz([stack EXCEPT ![Len(stack)].at = 29],
                         <<S("account"), S("set"), S("--subscription"), Top.subscription_id>>,
                         None)
               /\ ret' = NoRet
               /\ HelperCallsAzUnchanged
          ELSE /\ Deliver(Pop(stack), Val(None),
                          Emit(log, logging_disabled, "INFO", "Selected subscription: '%s'",
                               Top.subscription_id))
               /\ HelperReturnsUnchanged

\* lines 29-31: the switch command has ended
SelectSubscriptionSet ==
    /\ AtFrame("select_subscription", 29)
    /\ ret.k # "none"
    /\ IF ret.k = "exc"
       THEN Deliver(Pop(stack), ret, log)
       ELSE Deliver(Pop(stack), Val(None),
                    Emit(log, logging_disabled, "INFO", "Selected subscription: '%s'",
                         Top.subscription_id))
    /\ HelperReturnsUnchanged

----------------------------------------------------------------------------
(* azure_helpers.group_exists, vault_exists *)

\* exists_result with every exception caught
exists_result_catch_all(res) ==
    IF res.k = "exc" THEN Val(PyBool(FALSE)) ELSE Val(PyBool(res.v.t # "None"))

\* try: return az(args) is not None / except AzCliResourceNotFoundException: return False
exists_result(res) ==
    IF res.k = "exc"
    THEN IF res.type = "AzCliResourceNotFoundException" THEN Val(PyBool(FALSE)) ELSE res
    ELSE Val(PyBool(res.v.t # "None"))

\* lines 37-39
GroupExistsShow ==
    /\ AtFrame("group_exists", 38)
    /\ CallAz([stack EXCEPT ![Len(stack)].at = 39],
              <<S("group"), S("show"), S("--name"), Top.resource_group>>, None)
    /\ ret' = NoRet
    /\ HelperCallsAzUnchanged

\* lines 39-41
GroupExistsResult ==
    /\ AtFrame("group_exists", 39)
    /\ ret.k # "none"
    /\ Deliver(Pop(stack), exists_result(ret), log)
    /\ HelperReturnsUnchanged

\* lines 47-49
VaultExistsShow ==
    /\ AtFrame("vault_exists", 48)
    /\ CallAz([stack EXCEPT ![Len(stack)].at = 49],
              <<S("keyvault"), S("show"), S("--name"), Top.vault_name,
                S("--resource-group"), Top.resource_group>>, None)
    /\ ret' = NoRet
    /\ HelperCallsAzUnchanged

\* lines 49-51
VaultExistsResult ==
    /\ AtFrame("vault_exists", 49)
    /\ ret.k # "none"
    /\ Deliver(Pop(stack), exists_result(ret), log)
    /\ HelperReturnsUnchanged

----------------------------------------------------------------------------
(* azure_helpers.set_secret, set_secret_and_get_secret_version *)

\* TagArgs that emits the first item only
TagArgs_first_only(items) ==
    IF Len(items) = 0 THEN <<>>
    ELSE <<S("--tags"), items[1][1] \o S("=") \o items[1][2]>>

RECURSIVE TagArgs(_)
\* for key, value in tags.items(): args.extend(['--tags', f"{key}={value}"])
TagArgs(items) ==
    IF Len(items) = 0 THEN <<>>
    ELSE <<S("--tags"), items[1][1] \o S("=") \o items[1][2]>> \o TagArgs(Tail(items))

\* lines 69-80: the argument list of the secret write
set_secret_args(key_vault, secret_name, secret_value, content_type, expiration_date, tags) ==
    <<S("keyvault"), S("secret"), S("set"), S("--query"), S("[id]"),
      S("--vault-name"), key_vault, S("--name"), secret_name, S("--value"), secret_value,
      S("--content-type"), content_type>>
    \o (IF Len(expiration_date) > 0 THEN <<S("--expires"), expiration_date>> ELSE <<>>)
    \o (IF Truthy(tags) THEN TagArgs(tags.v) ELSE <<>>)

\* secret_id_list[0].split('/')[-1]
secret_version(secret_id_list) ==
    CASE secret_id_list.t = "None" -> Exc("TypeError", -1)
      [] secret_id_list.t = "dict" -> Exc("KeyError", -1)
      [] secret_id_list.t = "str" ->
            IF Len(secret_id_list.v) = 0 THEN Exc("IndexError", -1)
            ELSE Val(PyStr(Last(Split(<<secret_id_list.v[1]>>, "/"))))
      [] secret_id_list.t = "list" ->
            IF Len(secret_id_list.v) = 0 THEN Exc("IndexError", -1)
            ELSE IF secret_id_list.v[1].t # "str" THEN Exc("AttributeError", -1)
            ELSE Val(PyStr(Last(Split(secret_id_list.v[1].v, "/"))))

\* lines 65, 69-84: build the arguments and run the command
SetSecret ==
    /\ AtFrame("set_secret_and_get_secret_version", 65)
    /\ CallAz([stack EXCEPT ![Len(stack)].at = 66],
              set_secret_args(Top.key_vault, Top.secret_name, Top.secret_value,
                              Top.content_type, Top.expiration_date, Top.tags),
              None)
    /\ ret' = NoRet
    /\ HelperCallsAzUnchanged

\* lines 84, 65-66: the version is the trailing path segment of the identifier
SetSecretVersion ==
    /\ AtFrame("set_secret_and_get_secret_version", 66)
    /\ ret.k # "none"
    /\ Deliver(Pop(stack), IF ret.k = "exc" THEN ret ELSE secret_version(ret.v), log)
    /\ HelperReturnsUnchanged

----------------------------------------------------------------------------
(* generate_encryptionkeys_azure: dates and tags *)

\* the calendar days the model names, with their '%Y-%m-%d' text
Calendar ==
    <<[day |-> 0, text |-> "2026-01-01"], [day |-> 1, text |-> "2026-01-02"],
      [day |-> 2, text |-> "2026-01-03"], [day |-> 3, text |-> "2026-01-04"],
      [day |-> 90, text |-> "2026-04-01"], [day |-> 91, text |-> "2026-04-02"],
      [day |-> 92, text |-> "2026-04-03"]>>

\* day.strftime("%Y-%m-%d")
strftime(day) == S(Calendar[CHOOSE i \in 1..Len(Calendar) : Calendar[i].day = day].text)

\* datetime.strptime(date, "%Y-%m-%d") succeeds
IsDate(date) == Len(date) = 1 /\ \E i \in 1..Len(Calendar) : Calendar[i].text = date[1]

\* datetime.strptime(date, "%Y-%m-%d"): midnight of that day, in ticks
strptime(date) ==
    Calendar[CHOOSE i \in 1..Len(Calendar) : Calendar[i].text = date[1]].day * TicksPerDay

\* (datetime.now() + timedelta(days=90)).strftime("%Y-%m-%d")
DEFAULT_ENCRYPTION_KEY_EXPIRATION == strftime((now \div TicksPerDay) + DefaultExpirationDays)

DEFAULT_ENCRYPTION_KEY_NAME == S("secret--encryption--symmetricKey")
DEFAULT_ENCRYPTION_KEY_VERSION_NAME == S("secret--encryption--symmetricKeyVersion")

\* validate_date: "" when the date passes, else the message of log_error_and_exit
validate_date(date) ==
    IF ~IsDate(date) THEN "Incorrect date format, should be 'YYYY-MM-DD'"
    ELSE IF strptime(date) < now THEN "Invalid expiration date '{date}', should be in the future."
    ELSE ""

RECURSIVE convert_tag_list(_, _)
\* the loop of convert_tags: key, value = tag.split("=") raises ValueError unless the
\* tag splits into exactly two parts
convert_tag_list(tags_list, tags_dict) ==
    IF Len(tags_list) = 0 THEN Val(PyDict(tags_dict))
    ELSE LET parts == Split(tags_list[1], "=")
         IN IF Len(parts) # 2 THEN Exc("ValueError", -1)
            ELSE convert_tag_list(Tail(tags_list), DictSet(tags_dict, parts[1], parts[2]))

\* convert_tags(tags)
convert_tags(tags) == convert_tag_list(Split(tags, ","), <<>>)

\* args.dry_run if args.dry_run else True
dry_run_setting(a) == IF Truthy(a.dry_run) THEN a.dry_run ELSE PyBool(TRUE)

\* os.getlogin()
getlogin == S("alice")

\* secrets.token_hex(DEFAULT_ENCRYPTION_KEY_LEN)
Keys == {S("6b31"), S("6b32")}

----------------------------------------------------------------------------
(* generate_encryptionkeys_azure: __main__ and generate_encryption_keys *)

\* lines 117-119: the arguments are parsed; call generate_encryption_keys
Main ==
    /\ AtFrame("__main__", 118)
    /\ stack' = Append([stack EXCEPT ![Len(stack)].at = 119],
                       [fn |-> "generate_encryption_keys", at |-> 57])
    /\ UNCHANGED <<entry, ret, args, now, gek, log, logging_disabled, invoked,
                   az_invocations, az_sleeps, az_attempts, az_calls, slept, last_outcome, vault,
                   exit_status, traceback>>

ScriptStepUnchanged ==
    UNCHANGED <<entry, args, now, logging_disabled, invoked, az_invocations, az_sleeps,
                az_attempts, az_calls, slept, last_outcome, vault>>

\* lines 57-63: the names and the expiration date, which is validated
ValidateDate ==
    /\ AtFrame("generate_encryption_keys", 57)
    /\ LET expiration == IF Truthy(args.expiration) THEN args.expiration.v
                         ELSE DEFAULT_ENCRYPTION_KEY_EXPIRATION
           message == validate_date(expiration)
       IN /\ gek' = [gek EXCEPT
                       !.key_name = IF Truthy(args.key_name) THEN args.key_name.v
                                    ELSE DEFAULT_ENCRYPTION_KEY_NAME,
                       !.key_version_name = IF Truthy(args.key_version_name)
                                            THEN args.key_version_name.v
                                            ELSE DEFAULT_ENCRYPTION_KEY_VERSION_NAME,
                       !.expiration = expiration]
          /\ IF message # ""
             THEN log_error_and_exit(log, message, expiration)
             ELSE /\ stack' = [stack EXCEPT ![Len(stack)].at = 64]
                  /\ UNCHANGED <<ret, log, exit_status, traceback>>
    /\ ScriptStepUnchanged

\* line 64: the tags, or the login name as the only tag
ConvertTags ==
    /\ AtFrame("generate_encryption_keys", 64)
    /\ LET tags == IF Truthy(args.tags) THEN convert_tags(args.tags.v)
                    ELSE Val(PyDict(<<<<S("user"), getlogin>>>>))
       IN IF tags.k = "exc"
          THEN MainExcept(log) /\ gek' = gek
          ELSE /\ gek' = [gek EXCEPT !.tags = tags.v]
               /\ stack' = [stack EXCEPT ![Len(stack)].at = 65]
               /\ UNCHANGED <<ret, log, exit_status, traceback>>
    /\ ScriptStepUnchanged

\* lines 67-76: the settings, as logged
settings_log(lg, g, dry_run) ==
    LET l0 == Emit(lg, logging_disabled, "INFO", "Running the script '%s' with following settings:", <<>>)
        l1 == Emit(l0, logging_disabled, "INFO", "  Subscription id: '%s'", args.subscription_id)
        l2 == Emit(l1, logging_disabled, "INFO", "  Resource group: '%s'", args.resource_group)
        l3 == Emit(l2, logging_disabled, "INFO", "  Location: '%s'", args.location)
        l4 == Emit(l3, logging_disabled, "INFO", "  Vault name: '%s'", args.vault_name)
        l5 == Emit(l4, logging_disabled, "INFO", "  Key name: '%s'", g.key_name)
        l6 == Emit(l5, logging_disabled, "INFO", "  Key version name: '%s'", g.key_version_name)
        l7 == Emit(l6, logging_disabled, "INFO", "  Expiration: '%s'", g.expiration)
        l8 == Emit(l7, logging_disabled, "INFO", "  Tags: '%s'", Join([i \in 1..Len(g.tags.v) |-> g.tags.v[i][1] \o S(":") \o g.tags.v[i][2]], S(",")))
        l9 == Emit(l8, logging_disabled, "INFO", "  Dry run: '%s'", IF dry_run.t = "bool" THEN S("True") ELSE dry_run.v)
    IN Emit(l9, logging_disabled, "INFO", "Generating encryption key and encryption key version...", <<>>)

\* DryRunCheck without the return of the dry run: the subscription is selected anyway
DryRunCheck_no_return ==
    /\ AtFrame("generate_encryption_keys", 65)
    /\ \E key \in Keys :
        LET dry_run == dry_run_setting(args)
        IN /\ gek' = [gek EXCEPT !.dry_run = dry_run, !.key = key]
           /\ log' = settings_log(log, gek, dry_run)
           /\ GekCall(stack, 88, SelectSubscriptionFrame(args.subscription_id))
    /\ ScriptStepUnchanged

\* lines 65-88: the dry-run setting, the settings logged, the key generated; a dry run
\* logs what it would do and returns, which ends the script; otherwise the
\* subscription is selected
DryRunCheck ==
    /\ AtFrame("generate_encryption_keys", 65)
    /\ \E key \in Keys :
        LET dry_run == dry_run_setting(args)
            lg == settings_log(log, gek, dry_run)
        IN /\ gek' = [gek EXCEPT !.dry_run = dry_run, !.key = key]
           /\ IF Truthy(dry_run)
              THEN /\ log' = Emit(Emit(lg, logging_disabled, "INFO",
                                       "Dry run mode, no changes will be made.", <<>>),
                                  logging_disabled, "INFO",
                                  "Encryption key '{key_name}' will be created with a value of '{key}'.",
                                  gek.key_name \o key)
                   /\ Terminate(0, "")
              ELSE /\ log' = lg
                   /\ GekCall(stack, 88, SelectSubscriptionFrame(args.subscription_id))
    /\ ScriptStepUnchanged

----------------------------------------------------------------------------
(* Direct calls of the helpers (the functions azure_helpers exports) *)

HarnessReady == entry # "__main__" /\ AtFrame("harness", 0) /\ ret.k = "none"

HarnessCalled == [stack EXCEPT ![Len(stack)].at = 1]

HarnessCallsHelper(frame) ==
    /\ stack' = Append(HarnessCalled, frame)
    /\ UNCHANGED <<entry, ret, args, now, gek, log, logging_disabled, invoked,
                   az_invocations, az_sleeps, az_attempts, az_calls, slept, last_outcome, vault,
                   exit_status, traceback>>

SubscriptionIds == {<<"a", "b">>, <<"A", "B">>, <<"c", "d">>}

\* az(args) and az(args, redact_values)
CallAzDirect ==
    /\ HarnessReady /\ entry = "az"
    /\ \E redact_values \in {None, PyList(<<S("6b31")>>)},
          a \in {<<S("group"), S("list")>>,
                 <<S("keyvault"), S("secret"), S("set"), S("--vault-name"), S("kv"),
                   S("--name"), S("key"), S("--value"), S("6b31")>>} :
        CallAz(HarnessCalled, a, redact_values)
    /\ ret' = NoRet
    /\ HelperCallsAzUnchanged

CallSelectSubscription ==
    /\ HarnessReady /\ entry = "select_subscription"
    /\ \E subscription_id \in SubscriptionIds :
        HarnessCallsHelper(SelectSubscriptionFrame(subscription_id))

CallGroupExists ==
    /\ HarnessReady /\ entry = "group_exists"
    /\ HarnessCallsHelper(GroupExistsFrame(S("rg")))

CallVaultExists ==
    /\ HarnessReady /\ entry = "vault_exists"
    /\ HarnessCallsHelper(VaultExistsFrame(S("rg"), S("kv")))

CallSetSecret ==
    /\ HarnessReady /\ entry = "set_secret_and_get_secret_version"
    /\ \E key \in Keys, expiration_date \in {<<>>, strftime(Today + 1)},
          tags \in {None, PyDict(<<>>), PyDict(<<<<S("a"), S("1")>>, <<S("b"), S("2")>>>>)} :
        HarnessCallsHelper(SetSecretFrame(S("kv"), S("key"), key,
                                          S("application/octet-stream"), expiration_date, tags))

\* lines 64 and 99 on their own: the tag string is converted and the mapping is handed to
\* the secret write
CallConvertTags ==
    /\ HarnessReady /\ entry = "convert_tags"
    /\ LET tags == convert_tags(args.tags.v)
       IN IF tags.k = "exc"
          THEN /\ stack' = HarnessCalled
               /\ ret' = tags
          ELSE /\ stack' = Append(HarnessCalled,
                                  SetSecretFrame(S("kv"), S("key"), S("6b31"),
                                                 S("application/octet-stream"),
                                                 strftime(Today + 1), tags.v))
               /\ ret' = ret
    /\ UNCHANGED <<entry, args, now, gek, log, logging_disabled, invoked,
                   az_invocations, az_sleeps, az_attempts, az_calls, slept, last_outcome, vault,
                   exit_status, traceback>>

----------------------------------------------------------------------------
(* Specification *)

Entries == {"__main__", "az", "select_subscription", "group_exists", "vault_exists",
            "set_secret_and_get_secret_version", "convert_tags"}

\* the largest number of pairs in a generated tag string
MaxTagPairs == 2

TagPairs == {<<key, "=", value>> : key \in {"a", "b"}, value \in {"1", "2"}}

RECURSIVE TagPairLists(_)
\* the tag strings of n comma-separated key=value pairs
TagPairLists(n) ==
    IF n = 1 THEN TagPairs
    ELSE {pair \o <<",">> \o rest : pair \in TagPairs, rest \in TagPairLists(n - 1)}

\* the values of -t that are comma-separated key=value pairs
TagPairStrings == UNION {TagPairLists(n) : n \in 1..MaxTagPairs}

\* the command lines of the script
Expirations == {None, PyStr(<<>>), PyStr(strftime(Today - 1)), PyStr(strftime(Today)),
                PyStr(strftime(Today + 1)), PyStr(S("tomorrow"))}

TagStrings == {None, PyStr(<<>>), PyStr(<<"a", "=", "1">>),
               PyStr(<<"a", "=", "1", ",", "b", "=", "2">>),
               PyStr(<<"a", "=", "1", ",", "a", "=", "2">>),
               PyStr(<<"a">>), PyStr(<<"a", "=", "1", "=", "2">>)}

DryRunFlags == {None, PyStr(<<>>), PyStr(S("true")), PyStr(S("false"))}

CommandLines ==
    [subscription_id : {<<"a", "b">>}, resource_group : {S("rg")}, location : {S("westus")},
     vault_name : {S("kv")}, key_name : {None, PyStr(S("mykey"))}, key_version_name : {None},
     expiration : Expirations, tags : TagStrings, dry_run : DryRunFlags]

NoCommandLine ==
    [subscription_id |-> <<"a", "b">>, resource_group |-> S("rg"), location |-> S("westus"),
     vault_name |-> S("kv"), key_name |-> None, key_version_name |-> None,
     expiration |-> None, tags |-> None, dry_run |-> None]

Init ==
    /\ entry \in Entries
    /\ stack = IF entry = "__main__" THEN <<[fn |-> "__main__", at |-> 118]>>
               ELSE <<[fn |-> "harness", at |-> 0]>>
    /\ ret = NoRet
    /\ args \in CASE entry = "__main__" -> CommandLines
                 [] entry = "convert_tags" ->
                        {[NoCommandLine EXCEPT !.tags = PyStr(tags)] : tags \in TagPairStrings}
                 [] OTHER -> {NoCommandLine}
    /\ now \in IF entry = "__main__"
               THEN {Today * TicksPerDay + tick : tick \in 0..(TicksPerDay - 1)}
               ELSE {Today * TicksPerDay}
    /\ gek = [key_name |-> <<>>, key_version_name |-> <<>>, expiration |-> <<>>,
              tags |-> None, dry_run |-> None, key |-> <<>>, key_id |-> None,
              key_version_id |-> None]
    /\ log = <<>>
    /\ logging_disabled = FALSE
    /\ invoked = <<>>
    /\ az_invocations = 0
    /\ az_sleeps = 0
    /\ az_attempts = <<>>
    /\ az_calls = <<>>
    /\ slept = 0
    /\ last_outcome = NoOutcome
    /\ vault = <<>>
    /\ exit_status = -1
    /\ traceback = ""

Next ==
    \/ Main
    \/ ValidateDate
    \/ ConvertTags
    \/ DryRunCheck
    \/ CallAzDirect
    \/ CallSelectSubscription
    \/ CallGroupExists
    \/ CallVaultExists
    \/ CallSetSecret
    \/ CallConvertTags
    \/ SelectSubscriptionList
    \/ SelectSubscriptionCheck
    \/ SelectSubscriptionSet
    \/ GroupExistsShow
    \/ GroupExistsResult
    \/ VaultExistsShow
    \/ VaultExistsResult
    \/ SetSecret
    \/ SetSecretVersion
    \/ AzInvoke
    \/ AzToolEnds
    \/ AzWait

Spec == Init /\ [][Next]_vars

----------------------------------------------------------------------------
(* Vocabulary of the properties *)

\* a call of az is in progress
AzOnTop == Len(stack) > 0 /\ Top.fn = "az"

\* a call of az has just returned or raised to its caller, which has not resumed yet
AzReturnedTo ==
    /\ Len(stack) > 0
    /\ ret.k # "none"
    /\ Top.fn # "az"
    /\ Top.fn = "harness" => entry = "az"

\* the last invocation of the tool has ended and has been classified
AttemptDone == Len(az_attempts) > 0 /\ Len(az_attempts) = az_invocations

Failure(attempt) == attempt.type # "value"
ServiceUnavailable(attempt) == attempt.type = "AzCliServiceUnavailableException"

AllServiceUnavailable == \A i \in 1..Len(az_attempts) : ServiceUnavailable(az_attempts[i])

ErrorLogged == \E i \in 1..Len(log) : log[i].level = "ERROR"

ScriptEnded == entry = "__main__" /\ exit_status # -1

\* the expiration date and the tags of the command line pass validation
InputsValid ==
    /\ validate_date(IF Truthy(args.expiration) THEN args.expiration.v
                     ELSE DEFAULT_ENCRYPTION_KEY_EXPIRATION) = ""
    /\ Truthy(args.tags) => convert_tags(args.tags.v).k = "val"

----------------------------------------------------------------------------
(* C1: a run of the script without the dry-run flag, with valid inputs and with no
   failure of any command, has written the key secret and then the key-version
   secret when it ends, and has reported success. *)
C1_RunWithoutDryRunFlagWritesBothSecrets ==
    (/\ ScriptEnded
     /\ args.dry_run.t = "None"
     /\ InputsValid
     /\ traceback = ""
     /\ ~ErrorLogged)
    => /\ exit_status = 0
       /\ Len(vault) = 2
       /\ vault[1].name = gek.key_name
       /\ vault[2].name = gek.key_version_name
       /\ Last(log).msg = SUCCESS_MESSAGE

----------------------------------------------------------------------------
(* C2: one call of az invokes the tool at most 5 times; a further attempt is made only
   after an attempt that ended in service-unavailable; one wait separates each pair
   of consecutive attempts; and a call whose every attempt ended in
   service-unavailable has invoked the tool exactly 5 times, with 4 waits. *)
C2_RetryAtMostFiveAttemptsOnServiceUnavailable ==
    /\ az_invocations <= MaxAttempts
    /\ \A i \in 1..(az_invocations - 1) :
          i <= Len(az_attempts) /\ ServiceUnavailable(az_attempts[i])
    /\ (AzOnTop /\ Top.at = "call") => az_sleeps = az_invocations
    /\ (az_invocations > 0 /\ ~(AzOnTop /\ Top.at = "call")) => az_sleeps = az_invocations - 1
    /\ entry = "az" => slept = WaitSeconds * az_sleeps
    /\ (AttemptDone /\ ~AzOnTop /\ AllServiceUnavailable)
          => az_invocations = 5 /\ az_sleeps = 4

C2_Witness_FiveAttemptsFourWaits ==
    /\ AzReturnedTo
    /\ AttemptDone
    /\ AllServiceUnavailable
    /\ az_invocations = 5
    /\ az_sleeps = 4
    /\ entry = "az" /\ slept = 20

----------------------------------------------------------------------------
(* C3: when the 5th attempt of a call of az also ends in service-unavailable, the
   exception the caller of az receives is AzCliServiceUnavailableException. *)
C3_ExhaustedRetriesRaiseServiceUnavailable ==
    (/\ AzReturnedTo
     /\ AttemptDone
     /\ az_invocations = MaxAttempts
     /\ ServiceUnavailable(Last(az_attempts)))
    => ret.k = "exc" /\ ret.type = "AzCliServiceUnavailableException"

----------------------------------------------------------------------------
(* C4: an attempt of az that ends in a failure other than service-unavailable is the
   last attempt of its call: the call is over, no wait follows the attempt, the tool
   is not invoked again, and the caller receives that very failure. *)
C4_OtherFailuresPropagateAtOnce ==
    \A i \in 1..Len(az_attempts) :
        (Failure(az_attempts[i]) /\ ~ServiceUnavailable(az_attempts[i]))
        => /\ i = Len(az_attempts)
           /\ ~AzOnTop
           /\ az_invocations = i
           /\ az_sleeps = i - 1
           /\ AzReturnedTo => (ret.k = "exc" /\ ret.type = az_attempts[i].type)

C4_Witness_FailureAfterTwoRetries ==
    /\ AzReturnedTo
    /\ Len(az_attempts) = 3
    /\ ServiceUnavailable(az_attempts[1]) /\ ServiceUnavailable(az_attempts[2])
    /\ az_attempts[3].type = "AzCliResourceNotFoundException"
    /\ ret.k = "exc" /\ ret.type = "AzCliResourceNotFoundException"
    /\ az_invocations = 3 /\ az_sleeps = 2

----------------------------------------------------------------------------
(* C5: whenever the tool ends an invocation with exit code 3, raised as a process exit
   or returned from invoke, the attempt raises AzCliResourceNotFoundException. *)
C5_NotFoundExitCodeRaisesResourceNotFound ==
    (AttemptDone /\ last_outcome.code = NotFoundExitCode)
    => Last(az_attempts).type = "AzCliResourceNotFoundException"

----------------------------------------------------------------------------
(* C6: whenever the tool ends an invocation with a non-zero exit code that is neither 3
   nor the service-unavailable signature, the attempt raises AzCliExecutionException
   and the exception carries the exit code of the tool. *)
C6_OtherExitCodesRaiseExecutionFailureWithCode ==
    (/\ AttemptDone
     /\ last_outcome.code \notin {0, NotFoundExitCode}
     /\ ~(last_outcome.code = 1 /\ last_outcome.result = "max_retries"))
    => /\ Last(az_attempts).type = "AzCliExecutionException"
       /\ Last(az_attempts).code = last_outcome.code

----------------------------------------------------------------------------
(* C7: when the tool ends with exit code 0, a non-empty output is returned decoded from
   JSON, or raises AzCliExecutionException when it does not decode; an empty output
   with no structured error returns None. *)
C7_ExitCodeZeroReturnsDecodedOutputOrNone ==
    (AzReturnedTo /\ AttemptDone /\ last_outcome.code = 0)
    => /\ last_outcome.output = "[]" => (ret.k = "val" /\ ret.v = PyList(<<>>))
       /\ last_outcome.output = "null" => (ret.k = "val" /\ ret.v = None)
       /\ last_outcome.output = "{\"name\": \"rg\"}"
             => (ret.k = "val" /\ ret.v.t = "dict"
                 /\ ret.v.v = <<<<S("name"), PyStr(S("rg"))>>>>)
       /\ last_outcome.output \in JsonTexts
             => (ret.k = "val" /\ Last(az_attempts).type = "value")
       /\ last_outcome.output \notin JsonTexts \cup {""}
             => (ret.k = "exc" /\ ret.type = "AzCliExecutionException")
       /\ (last_outcome.output = "" /\ last_outcome.result \in {"None", "no_error"})
             => (ret.k = "val" /\ ret.v = None)

C7_Witness_DecodedOutputReturned ==
    /\ AzReturnedTo /\ AttemptDone
    /\ last_outcome.code = 0
    /\ last_outcome.output = "{\"name\": \"rg\"}"
    /\ ret.k = "val" /\ ret.v.t = "dict"

----------------------------------------------------------------------------
(* C8: in a dry run of the script no command is handed to the external tool and the
   key vault holds what it held before the run. *)
C8_DryRunInvokesNothing ==
    (entry = "__main__" /\ Truthy(gek.dry_run))
    => /\ invoked = <<>>
       /\ az_invocations = 0
       /\ vault = <<>>

C8_Witness_DryRunEnded ==
    /\ ScriptEnded
    /\ Truthy(gek.dry_run)
    /\ exit_status = 0
    /\ \E i \in 1..Len(log) : log[i].msg = "Dry run mode, no changes will be made."
    /\ invoked = <<>>

----------------------------------------------------------------------------
(* C9: once the expiration date has been validated, a date that is not strictly in the
   future (its midnight is not later than now) has ended the run with exit status 1
   and a logged error, and no command has been invoked. *)
C9_DateNotInFutureIsRejected ==
    (/\ entry = "__main__"
     /\ Truthy(args.expiration)
     /\ IsDate(args.expiration.v)
     /\ strptime(args.expiration.v) <= now
     /\ gek.expiration = args.expiration.v)
    => /\ exit_status = 1
       /\ ErrorLogged
       /\ invoked = <<>>

----------------------------------------------------------------------------
(* C10: every run of the script that ends in failure has logged an error. *)
C10_EveryFailureIsLogged ==
    (ScriptEnded /\ exit_status # 0) => ErrorLogged

----------------------------------------------------------------------------
(* C11: a run of the script ends with exit status 0 exactly when it ran to its end (the
   return of the dry run, or the success message), and with exit status 1 whenever an
   input failed validation, an exception reached the top level or an error was
   logged. *)
RunCompleted ==
    /\ Len(log) > 0
    /\ Last(log).msg \in {"Encryption key '{key_name}' will be created with a value of '{key}'.",
                          SUCCESS_MESSAGE}

----------------------------------------------------------------------------
(* C12: group_exists and vault_exists return False when the show command raised
   AzCliResourceNotFoundException, True when it returned a decoded result other than
   None, and hand every other exception of the command to their caller. *)
HelperReturned == Len(stack) > 0 /\ Top.fn = "harness" /\ ret.k # "none" /\ entry # "az"

C12_ExistenceProbeCatchesOnlyNotFound ==
    (entry \in {"group_exists", "vault_exists"} /\ HelperReturned)
    => /\ Last(az_attempts).type = "AzCliResourceNotFoundException"
             => (ret.k = "val" /\ ret.v = PyBool(FALSE))
       /\ (az_attempt(last_outcome).k = "val" /\ az_attempt(last_outcome).v.t # "None")
             => (ret.k = "val" /\ ret.v = PyBool(TRUE))
       /\ Last(az_attempts).type = "AzCliExecutionException"
             => (ret.k = "exc" /\ ret.type = "AzCliExecutionException")
       /\ ServiceUnavailable(Last(az_attempts))
             => (ret.k = "exc" /\ az_invocations = MaxAttempts)

C12_Witness_NotFoundGivesFalse ==
    /\ entry = "group_exists"
    /\ HelperReturned
    /\ Last(az_attempts).type = "AzCliResourceNotFoundException"
    /\ ret.k = "val"
    /\ ret.v = PyBool(FALSE)

----------------------------------------------------------------------------
(* C13: when the account-list command returns without a default account, as an empty
   list or as the empty result None, select_subscription raises AzCliAccessException
   and makes no further call of az. *)
C13_NoDefaultAccountRaisesAccessDenied ==
    [][(/\ AtFrame("select_subscription", 23)
        /\ ret.k = "val"
        /\ ret.v.t \in {"None", "list"}
        /\ Len(ret.v.v) = 0)
       => (/\ ret'.k = "exc"
           /\ ret'.type = "AzCliAccessException"
           /\ az_calls' = az_calls)]_vars

----------------------------------------------------------------------------
(* C14: for a tag string of comma-separated key=value pairs, the mapping convert_tags
   yields holds every pair of the string, and the '--tags key=value' arguments of the
   secret write made with that mapping are exactly the pairs of the string. *)

\* the key=value pairs of a tag string
TagStringPairs(tags) == {Split(tags, ",")[i] : i \in 1..Len(Split(tags, ","))}

\* the key=value texts that follow '--tags' in an argument list
TagArguments(a) == {a[i + 1] : i \in {j \in 1..(Len(a) - 1) : a[j] = S("--tags")}}

\* the mapping holds the pair written key=value
MappingHoldsPair(tags_dict, pair) ==
    LET parts == Split(pair, "=")
    IN /\ DictHas(tags_dict, parts[1])
       /\ DictGet(tags_dict, parts[1]) = parts[2]

\* no key of the tag string is given two different values
NoConflictingKeys(tags) ==
    \A p, q \in TagStringPairs(tags) : Split(p, "=")[1] = Split(q, "=")[1] => p = q

TagsRoundTrip ==
    /\ (Len(stack) >= 2 /\ stack[2].fn = "set_secret_and_get_secret_version")
         => \A pair \in TagStringPairs(args.tags.v) : MappingHoldsPair(stack[2].tags.v, pair)
    /\ Len(az_calls) >= 1 => TagArguments(az_calls[1]) = TagStringPairs(args.tags.v)

\* as claimed, for every tag string
C14_TagsRoundTripLossless == entry = "convert_tags" => TagsRoundTrip

\* amended: for the tag strings in which no key is given two different values
C14_TagsRoundTripLosslessWithoutConflictingKeys ==
    (entry = "convert_tags" /\ NoConflictingKeys(args.tags.v)) => TagsRoundTrip

C14_Witness_TwoTagsReachSecretWrite ==
    /\ entry = "convert_tags"
    /\ args.tags.v = <<"a", "=", "1", ",", "b", "=", "2">>
    /\ Len(az_calls) = 1
    /\ TagArguments(az_calls[1]) = {<<"a", "=", "1">>, <<"b", "=", "2">>}

----------------------------------------------------------------------------
(* C17: when the account-list command yields a default account, select_subscription
   calls 'account set' for the requested identifier exactly when that identifier and
   the default account's differ in more than case, and a call of select_subscription
   makes at most one such call. *)
CasePairs == {<<"a", "A">>, <<"b", "B">>, <<"c", "C">>, <<"d", "D">>}

SameIgnoringCase(s, t) ==
    /\ Len(s) = Len(t)
    /\ \A i \in 1..Len(s) :
          s[i] = t[i] \/ <<s[i], t[i]>> \in CasePairs \/ <<t[i], s[i]>> \in CasePairs

\* select_subscription has received a list whose first account has a text identifier
DefaultAccountFound ==
    /\ AtFrame("select_subscription", 23)
    /\ ret.k = "val"
    /\ ret.v.t = "list"
    /\ Len(ret.v.v) > 0
    /\ ret.v.v[1].t = "dict"
    /\ DictHas(ret.v.v[1].v, S("id"))
    /\ DictGet(ret.v.v[1].v, S("id")).t = "str"

SwitchCommand(subscription_id) ==
    <<S("account"), S("set"), S("--subscription"), subscription_id>>

SwitchCalls == {i \in 1..Len(az_calls) : az_calls[i][1] = S("account") /\ az_calls[i][2] = S("set")}

C17_SwitchExactlyWhenIdentifiersDiffer ==
    /\ [][DefaultAccountFound
          => IF SameIgnoringCase(DictGet(ret.v.v[1].v, S("id")).v, Top.subscription_id)
             THEN az_calls' = az_calls
             ELSE az_calls' = Append(az_calls, SwitchCommand(Top.subscription_id))]_vars
    /\ [](entry = "select_subscription" => Cardinality(SwitchCalls) <= 1)

C17_Witness_SwitchIssued ==
    /\ entry = "select_subscription"
    /\ Len(az_calls) = 2
    /\ az_calls[2] = SwitchCommand(<<"a", "b">>)
    /\ az_attempts = <<>>

----------------------------------------------------------------------------
(* C18: in a run of the script, and in a secret write made through
   set_secret_and_get_secret_version, no log line shows the key material in clear. *)
ShowsKey(line) == \E i \in 1..Len(line.shown), key \in Keys : <<line.shown[i]>> = key

C18_KeyMaterialNeverLoggedInClear ==
    entry \in {"__main__", "set_secret_and_get_secret_version"}
    => \A i \in 1..Len(log) : ~ShowsKey(log[i])

----------------------------------------------------------------------------
(* C19: logging is disabled exactly while an attempt of az is inside the try statement
   that invokes the tool (lines 113-128); it is enabled before the first attempt,
   during every wait between attempts, and whenever az has returned or raised,
   whatever the attempt ended in. *)
InsideTool == AzOnTop /\ Top.at = "invoke"

----------------------------------------------------------------------------
(* C20: every invocation of the tool made by a call of az, retries included, is given
   the argument list of the call followed by one '--output', 'json' pair; the
   argument list of the call stays what the caller passed; the values to redact
   change the logged command line only. *)

\* the positions in `invoked` of the invocations of the latest call of az
InvocationsOfCall == (Len(invoked) - az_invocations + 1)..Len(invoked)

C20_ToolGetsCallerArgumentsPlusOutputJson ==
    /\ AzOnTop => Top.args = Last(az_calls)
    /\ \A i \in InvocationsOfCall :
          invoked[i] = Last(az_calls) \o <<S("--output"), S("json")>>

C20_Witness_RetryWithRedaction ==
    /\ entry = "az"
    /\ AzOnTop
    /\ Top.at = "invoke"
    /\ Truthy(Top.redact_values)
    /\ az_invocations = 2
    /\ \E i \in 1..Len(Last(invoked)) : Last(invoked)[i] = S("6b31")
    /\ \E i \in 1..Len(Last(log).shown) : Last(log).shown[i] = "*****"
    /\ \A i \in 1..Len(Last(log).shown) : Last(log).shown[i] # "6b31"

====
